---- MODULE Spec2Model ----
(***************************************************************************)
(* Model of advanced_worksheet_generator.py: one run of main(), which      *)
(* creates a browser session, fills the remote form, clicks Create         *)
(* Worksheet and then tries four ways of getting hold of the PDF.          *)
(*                                                                         *)
(* Strings (file names, addresses) are sequences of characters, so that    *)
(* str.endswith is computed and not assumed.  Time is counted in whole     *)
(* seconds; a sleep of n seconds takes n seconds plus a scheduling lag.    *)
(***************************************************************************)
EXTENDS Integers, Sequences, FiniteSets, TLC

(* ------------------------------ bounds --------------------------------- *)
\* largest scheduling lag, in seconds, added to one time.sleep
MaxLag == 1
\* largest timeout passed to wait_for_pdf_download when it runs on its own
MaxTimeout == 4
\* largest number of Download/Save controls find_elements returns
MaxButtons == 2
\* largest number of window handles the browser reports
MaxWindows == 2
\* elements taken from the list one lookup returns
MaxElems == 2

(* ------------------------ program constants ---------------------------- *)
\* time.sleep(2) after a PDF is detected
GraceSleep == 2
\* time.sleep(1) between two polls
PollSleep == 1
\* wait_for_pdf_download(..., timeout=15), Method 1
Method1Timeout == 15
\* wait_for_pdf_download(..., timeout=10), Method 4
Method4Timeout == 10

(* ------------------------------ strings -------------------------------- *)
PDF == <<".", "p", "d", "f">>
CRDOWNLOAD == <<".", "c", "r", "d", "o", "w", "n", "l", "o", "a", "d">>

\* str.endswith
EndsWith(s, suffix) ==
    /\ Len(s) >= Len(suffix)
    /\ SubSeq(s, Len(s) - Len(suffix) + 1, Len(s)) = suffix

\* Python's None (and the empty string): the values `if pdf_file:` rejects
None == <<>>
Truthy(x) == x # None

\* the names the download directory can hold
WPdf == <<"w">> \o PDF
VPdf == <<"v">> \o PDF
WPartial == WPdf \o CRDOWNLOAD
\* the caller's --output (argparse default handwriting_worksheet.pdf)
output_file == <<"o">> \o PDF

\* what the directory may hold before the run starts
OldNames == {WPdf, output_file}

\* addresses the browser can be at after the submission
PageUrl == <<"h", "/", "p">>
PdfUrl == <<"h", "/", "w">> \o PDF
Urls == {PageUrl, PdfUrl}

(* ------------------------- page elements ------------------------------ *)
\* what a lookup yields: a WebElement with its is_displayed() and
\* is_enabled() answers, or nothing
El(v, e) == [there |-> TRUE, vis |-> v, en |-> e]
NoEl == [there |-> FALSE, vis |-> FALSE, en |-> FALSE]
Elements == {El(v, e) : v, e \in BOOLEAN}
Lookups == Elements \cup {NoEl}
\* EC.element_to_be_clickable: displayed and enabled
Clickable(e) == e.there /\ e.vis /\ e.en
\* element.click(): the driver raises on an element that is not displayed,
\* and may raise on any other (intercepted, stale)
NativeClicks(e) == IF e.vis THEN {"ok", "raises"} ELSE {"raises"}
\* clear() and send_keys() go through only on an interactable element
TypeResults(e) == IF e.vis /\ e.en THEN {"ok", "raises"} ELSE {"raises"}

VARIABLES
    pc,             \* control point of the run
    session,        \* "none", "live", "quit": the webdriver session
    dir,            \* os.listdir(download_dir)
    initial_files,  \* the snapshot of line 101
    timeout,        \* wait_for_pdf_download: parameter
    elapsed,        \* wait_for_pdf_download: time.time() - start_time
    pdf_files,      \* wait_for_pdf_download: the list of line 60 at the last poll
    sawPartial,     \* "Download in progress..." was printed in this call
    pdfInWindow,    \* a new '.pdf' entry existed at some moment of this call
    caller,         \* who called wait_for_pdf_download: "m1", "m4", "alone"
    pdf_file,       \* value returned by wait_for_pdf_download
    current_url,    \* line 573
    handles,        \* len(driver.window_handles), line 577
    context,        \* index of the window the driver is switched to
    new_url,        \* line 582
    href,           \* line 600
    buttons,        \* len(download_buttons), line 616
    bi,             \* index of the button of the loop of line 620
    mstat,          \* per detection method: "idle", "running", "failed", "succeeded"
    submitted,      \* the Create Worksheet control was clicked
    persisted,      \* how output_file was produced: "no", "rename", "write", "partial"
    renamed,        \* the entry os.rename was last applied to with success, or None
    retval,         \* value of the return statement executed: "none", "True", "False"
    outcome,        \* how the call ended: "none", "True", "False", "raised"
    shot,           \* save_screenshot: "none" (not called), "ok", "false", "raises"
    page_src,       \* debug_page_source.html: "absent", "empty", "written"
    captureTried,   \* the finally block reached save_screenshot
    srcTried,       \* the finally block reached the page source dump
    quitCount,      \* number of driver.quit() calls
    quitAfterCapture, \* driver.quit() was called after the capture attempt
    opsAfterQuit,   \* a driver operation was issued after driver.quit()
    drove,          \* a driver operation was issued
    exitStatus,     \* process exit status, -1 while running
    si,             \* index of the strategy being tried in the current list
    ei,             \* index of the element within the strategy's list
    cand,           \* the element the current strategy located, or NoEl
    firstMatch,     \* lowest strategy of the current list that located an element
    used,           \* strategy whose element was returned or activated, 0: none
    acted,          \* element last clicked, typed into or selected
    lastClick,      \* "none", "native", "script", "native_failed", "both_failed"
    letters_menu_opened, \* line 224
    letters_menu_found,  \* line 220
    optsBefore,     \* letter options on the page before any opener click
    optsNew,        \* letter options appeared on the page after an opener click
    optionTried,    \* a letter-style option was looked up by the run
    letter_style,   \* the letter_style argument, None until an option is clicked
    matchedOn,      \* the word the lookup of the option last clicked used
    radioOnPage,    \* the page held a radio input for a value of the list
    radioRes,       \* what the radio lookup for the value now tried gave
    listUse,        \* clicks on elements of the opener list now iterated
    unsettled       \* a click went through and no sleep has followed it

vars == <<pc, session, dir, initial_files, timeout, elapsed,
          pdf_files, sawPartial, pdfInWindow, caller, pdf_file, current_url,
          handles, context, new_url, href, buttons, bi, mstat,
          submitted, persisted, renamed, retval, outcome, shot, page_src,
          captureTried, srcTried, quitCount, quitAfterCapture, opsAfterQuit,
          drove, exitStatus, si, ei, cand, firstMatch, used, acted,
          lastClick, letters_menu_opened, letters_menu_found, optsBefore,
          optsNew, optionTried, letter_style, matchedOn, radioOnPage,
          radioRes, listUse, unsettled>>

\* variables of wait_for_pdf_download
wfdVars == <<timeout, elapsed, pdf_files, sawPartial, pdfInWindow,
             caller, pdf_file>>
\* variables of the acquisition methods 2..4
acqVars == <<current_url, handles, context, new_url, href, buttons, bi>>
\* locals of form filling (lines 104-555)
formVars == <<si, ei, cand, firstMatch, used, acted, lastClick,
              letters_menu_opened, letters_menu_found, optsBefore,
              optsNew, optionTried, letter_style, matchedOn, radioOnPage,
              radioRes, listUse, unsettled>>
\* what Steps 2 and 3 of the letter-style block add to the locals
styleVars == <<letter_style, matchedOn, radioOnPage, radioRes>>
\* the locals of one strategy list before its first strategy runs
ListIdle ==
    /\ si = 0 /\ ei = 0 /\ cand = NoEl /\ firstMatch = 0 /\ used = 0
ListReset ==
    /\ si' = 0 /\ ei' = 0 /\ cand' = NoEl /\ firstMatch' = 0 /\ used' = 0
\* the locals of the letter-style block before line 215
LettersIdle ==
    /\ letters_menu_opened = FALSE /\ letters_menu_found = FALSE
    /\ optsBefore = FALSE /\ optsNew = FALSE /\ optionTried = FALSE
    /\ letter_style = None /\ matchedOn = None /\ radioOnPage = FALSE
    /\ radioRes = "untried"
LettersReset ==
    /\ letters_menu_opened' = FALSE /\ letters_menu_found' = FALSE
    /\ optsBefore' = FALSE /\ optsNew' = FALSE /\ optionTried' = FALSE
    /\ letter_style' = None /\ matchedOn' = None /\ radioOnPage' = FALSE
    /\ radioRes' = "untried"
\* what the finally block and main() leave behind
endVars == <<shot, page_src, captureTried, srcTried, quitCount,
             quitAfterCapture, exitStatus, outcome>>

(* ---------------------- wait_for_pdf_download --------------------------- *)
\* the test of line 60 when an in-progress name is taken for a finished one
IsPdf_OrPartial(f) == EndsWith(f, PDF) \/ EndsWith(f, CRDOWNLOAD)

\* f.endswith('.pdf'), line 60
IsPdf(f) == EndsWith(f, PDF)
\* f.endswith('.crdownload'), line 67
IsPartial(f) == EndsWith(f, CRDOWNLOAD)

\* line 57 without the subtraction of initial_files
NewFiles_NoBaseline(current_files, initial) == current_files

\* new_files = current_files - initial_files, line 57
NewFiles(current_files, initial) == current_files \ initial
\* pdf_files = [f for f in new_files if f.endswith('.pdf')], line 60
PdfFiles(current_files, initial) ==
    {f \in NewFiles(current_files, initial) : IsPdf(f)}
\* partial_files, line 67
PartialFiles(current_files, initial) ==
    {f \in NewFiles(current_files, initial) : IsPartial(f)}

\* the new entries with a finished name: what a poll is meant to find
CompletedNew(d, snapshot) == {f \in d \ snapshot : EndsWith(f, PDF)}

\* the control points inside wait_for_pdf_download
WaitPcs == {"wfd_test", "wfd_grace", "wfd_sleep"}

\* a time.sleep(n): n seconds and a lag
Sleep(n) == \E lag \in 0..MaxLag : elapsed' = elapsed + n + lag

\* the loop test of line 55 written with <=
LoopTest_Inclusive(e, t) == e <= t

\* while time.time() - start_time < timeout, line 55
LoopTest(e, t) == e < t

\* where `return` of wait_for_pdf_download resumes
ReturnPc(c) == IF c = "m1" THEN "m1_ret"
               ELSE IF c = "m4" THEN "m4_ret" ELSE "wfd_done"

\* the call wait_for_pdf_download(download_dir, initial_files, timeout=t):
\* start_time = time.time(), line 54
CallWait(c, t) ==
    /\ pc' = "wfd_test"
    /\ caller' = c
    /\ timeout' = t
    /\ elapsed' = 0
    /\ pdf_files' = {}
    /\ sawPartial' = FALSE
    /\ pdfInWindow' = (CompletedNew(dir, initial_files) # {})
    /\ pdf_file' = None

\* lines 55-69: the loop test and, when it passes, one listing of the
\* directory.  pdf_files[0] is the first element of a list built from a
\* set, whose order is arbitrary: any member may be the one returned.
WaitPoll ==
    /\ pc = "wfd_test"
    /\ IF LoopTest(elapsed, timeout)
       THEN /\ pdf_files' = PdfFiles(dir, initial_files)
            /\ IF pdf_files' # {}
               THEN /\ \E f \in pdf_files' : pdf_file' = f
                    /\ pc' = "wfd_grace"
                    /\ UNCHANGED sawPartial
               ELSE /\ sawPartial' =
                          (sawPartial \/ PartialFiles(dir, initial_files) # {})
                    /\ pc' = "wfd_sleep"
                    /\ UNCHANGED pdf_file
       ELSE /\ pdf_file' = None
            /\ pc' = ReturnPc(caller)
            /\ UNCHANGED <<pdf_files, sawPartial>>
    /\ UNCHANGED <<session, dir, initial_files, timeout, elapsed, pdfInWindow,
                   caller, acqVars, mstat, submitted, persisted, renamed,
                   retval, endVars, opsAfterQuit, drove>>
    /\ UNCHANGED formVars

\* line 63-64: time.sleep(2); return pdf_files[0]
WaitGrace ==
    /\ pc = "wfd_grace"
    /\ Sleep(GraceSleep)
    /\ pc' = ReturnPc(caller)
    /\ UNCHANGED <<session, dir, initial_files, timeout, pdf_files,
                   sawPartial, pdfInWindow, caller, pdf_file, acqVars, mstat,
                   submitted, persisted, renamed, retval, endVars,
                   opsAfterQuit, drove>>
    /\ UNCHANGED formVars

\* line 71: time.sleep(1)
WaitSleep ==
    /\ pc = "wfd_sleep"
    /\ Sleep(PollSleep)
    /\ pc' = "wfd_test"
    /\ UNCHANGED <<session, dir, initial_files, timeout, pdf_files,
                   sawPartial, pdfInWindow, caller, pdf_file, acqVars, mstat,
                   submitted, persisted, renamed, retval, endVars,
                   opsAfterQuit, drove>>
    /\ UNCHANGED formVars

wait_for_pdf_download == WaitPoll \/ WaitGrace \/ WaitSleep

(* --------------------- the download directory -------------------------- *)
\* the browser and other processes write to the directory while the
\* session is alive (or while wait_for_pdf_download runs on its own)
DirActive ==
    \/ session = "live"
    \/ caller = "alone" /\ pc # "wfd_done"

DirChange(d) ==
    /\ DirActive
    /\ dir' = d
    /\ pdfInWindow' =
          IF pc \in WaitPcs
          THEN pdfInWindow \/ CompletedNew(d, initial_files) # {}
          ELSE pdfInWindow
    /\ UNCHANGED <<pc, session, initial_files, timeout, elapsed, pdf_files,
                   sawPartial, caller, pdf_file, acqVars, mstat, submitted,
                   persisted, renamed, retval, endVars, opsAfterQuit, drove>>
    /\ UNCHANGED formVars

\* the browser starts a download: an in-progress entry appears
DownloadStarts ==
    /\ WPartial \notin dir
    /\ DirChange(dir \cup {WPartial})

\* the browser finishes a download: the in-progress entry gets its name
DownloadCompletes ==
    /\ WPartial \in dir
    /\ DirChange((dir \ {WPartial}) \cup {WPdf})

\* a complete PDF appears at once
FileAppears ==
    /\ VPdf \notin dir
    /\ DirChange(dir \cup {VPdf})

Directory == DownloadStarts \/ DownloadCompletes \/ FileAppears

(* ---------------- wait_for_pdf_download on its own -------------------- *)
Quiet ==
    /\ session = "none"
    /\ current_url = None /\ handles = 0 /\ context = 1 /\ new_url = None
    /\ href = None /\ buttons = 0 /\ bi = 0
    /\ mstat = [k \in 1..4 |-> "idle"]
    /\ submitted = FALSE /\ persisted = "no" /\ renamed = None
    /\ retval = "none" /\ outcome = "none"
    /\ shot = "none" /\ page_src = "absent"
    /\ captureTried = FALSE /\ srcTried = FALSE
    /\ quitCount = 0 /\ quitAfterCapture = FALSE /\ opsAfterQuit = FALSE
    /\ drove = FALSE
    /\ exitStatus = -1
    /\ ListIdle /\ LettersIdle
    /\ acted = NoEl /\ lastClick = "none"
    /\ listUse = "none" /\ unsettled = FALSE

InitWait ==
    /\ Quiet
    /\ pc = "wfd_test"
    /\ caller = "alone"
    /\ timeout \in 0..MaxTimeout
    /\ initial_files \in SUBSET OldNames
    /\ dir \in {initial_files \cup n : n \in SUBSET {WPartial, VPdf}}
    /\ elapsed = 0
    /\ pdf_files = {} /\ sawPartial = FALSE
    /\ pdfInWindow = (CompletedNew(dir, initial_files) # {})
    /\ pdf_file = None

NextWait == wait_for_pdf_download \/ Directory

SpecWait == InitWait /\ [][NextWait]_vars

(* ------------------------------ the run -------------------------------- *)
Init ==
    /\ Quiet
    /\ pc = "main"
    /\ caller = "none"
    /\ timeout = 0 /\ elapsed = 0
    /\ pdf_files = {} /\ sawPartial = FALSE /\ pdfInWindow = FALSE
    /\ pdf_file = None
    /\ initial_files = {}
    /\ dir \in SUBSET OldNames

\* a call on the webdriver; it is an error of the run if one is issued
\* after driver.quit()
Driver ==
    /\ opsAfterQuit' = (opsAfterQuit \/ session = "quit")
    /\ drove' = TRUE

\* the status of detection method k becomes st
SetMethod(k, st) == mstat' = [mstat EXCEPT ![k] = st]

\* setup_driver without the sys.exit(1) of line 50: it returns None
setup_driver_NoExit ==
    /\ pc = "main"
    /\ \E ok \in BOOLEAN :
          IF ok
          THEN /\ session' = "live"
               /\ pc' = "get"
               /\ UNCHANGED exitStatus
          ELSE /\ pc' = "get"
               /\ UNCHANGED <<session, exitStatus>>
    /\ UNCHANGED <<dir, initial_files, wfdVars, acqVars, mstat, submitted,
                   persisted, renamed, retval, outcome, shot, page_src,
                   captureTried, srcTried, quitCount, quitAfterCapture,
                   opsAfterQuit, drove>>
    /\ UNCHANGED formVars

\* lines 44-50 and 82-83: webdriver.Chrome(...) returns the driver, or
\* raises and the handler calls sys.exit(1)
setup_driver ==
    /\ pc = "main"
    /\ \E ok \in BOOLEAN :
          IF ok
          THEN /\ session' = "live"
               /\ pc' = "get"
               /\ UNCHANGED exitStatus
          ELSE /\ exitStatus' = 1
               /\ pc' = "exited"
               /\ UNCHANGED session
    /\ UNCHANGED <<dir, initial_files, wfdVars, acqVars, mstat, submitted,
                   persisted, renamed, retval, outcome, shot, page_src,
                   captureTried, srcTried, quitCount, quitAfterCapture,
                   opsAfterQuit, drove>>
    /\ UNCHANGED formVars

\* a step of the try body that touches only the driver: it goes on to
\* `next`, or raises into the handler of line 640 when canRaise allows it
DriverStep(from, next, canRaise) ==
    /\ pc = from
    /\ Driver
    /\ \E ok \in (IF canRaise THEN BOOLEAN ELSE {TRUE}) :
          pc' = IF ok THEN next ELSE "except"
    /\ UNCHANGED <<session, dir, initial_files, wfdVars, acqVars, mstat,
                   submitted, persisted, renamed, retval, endVars>>
    /\ UNCHANGED formVars

\* line 87: driver.get(url)
Navigate == DriverStep("get", "wait_body", TRUE)

\* lines 91-96: WebDriverWait(driver, 20).until(body present), time.sleep(8)
WaitBody == DriverStep("wait_body", "snapshot", TRUE)

\* line 101: initial_files = set(os.listdir(download_dir))
Snapshot ==
    /\ pc = "snapshot"
    /\ initial_files' = dir
    /\ pc' = "text_input"
    /\ UNCHANGED <<session, dir, wfdVars, acqVars, mstat, submitted,
                   persisted, renamed, retval, endVars, opsAfterQuit, drove>>
    /\ UNCHANGED formVars

\* the frame of a form step that neither ends the run
FormFrame ==
    UNCHANGED <<session, dir, initial_files, wfdVars, acqVars, mstat,
                submitted, persisted, renamed, retval, endVars>>

\* the text-input list: 1 is the textarea wait of line 107, 2..5 are the
\* alternative_selectors of lines 113-118
TextStrategies == 5

\* lines 104-112: WebDriverWait(driver, 10).until(element_to_be_clickable
\* (textarea)); the element returned is displayed and enabled, and any
\* raise (the timeout too) goes to the alternative selectors
TextInput ==
    /\ pc = "text_input"
    /\ Driver
    /\ \E found \in BOOLEAN :
          IF found
          THEN /\ cand' = El(TRUE, TRUE)
               /\ si' = 1 /\ firstMatch' = 1 /\ used' = 1
               /\ pc' = "text_type"
          ELSE /\ cand' = NoEl
               /\ si' = 2 /\ firstMatch' = 0 /\ used' = 0
               /\ pc' = "text_alt"
    /\ UNCHANGED <<session, dir, initial_files, wfdVars, acqVars, mstat,
                   submitted, persisted, renamed, retval, endVars, ei, acted,
                   lastClick, letters_menu_opened, letters_menu_found,
                   optsBefore, optsNew, optionTried>>
    /\ UNCHANGED <<styleVars, listUse, unsettled>>

\* the loop over alternative_selectors without the try of line 121: the
\* NoSuchElementException of a miss leaves the loop
TextAlt_Unguarded ==
    /\ pc = "text_alt"
    /\ Driver
    /\ \E e \in Lookups :
          IF e.there
          THEN /\ cand' = e /\ firstMatch' = si /\ used' = si
               /\ pc' = "text_type"
          ELSE /\ UNCHANGED <<cand, firstMatch, used>>
               /\ pc' = "except"
    /\ FormFrame
    /\ UNCHANGED <<si, ei, acted, lastClick, letters_menu_opened,
                   letters_menu_found, optsBefore, optsNew, optionTried>>
    /\ UNCHANGED <<styleVars, listUse, unsettled>>

\* lines 120-125: one iteration of the loop over alternative_selectors:
\* driver.find_element returns the first element in the document whatever
\* its state, or raises and the loop goes on
TextAlt ==
    /\ pc = "text_alt"
    /\ Driver
    /\ \E e \in Lookups :
          IF e.there
          THEN /\ cand' = e /\ firstMatch' = si /\ used' = si
               /\ pc' = "text_type"
               /\ UNCHANGED si
          ELSE /\ UNCHANGED <<cand, firstMatch, used>>
               /\ IF si < TextStrategies
                  THEN si' = si + 1 /\ pc' = pc
                  ELSE pc' = "text_type" /\ UNCHANGED si
    /\ UNCHANGED <<session, dir, initial_files, wfdVars, acqVars, mstat,
                   submitted, persisted, renamed, retval, endVars, ei, acted,
                   lastClick, letters_menu_opened, letters_menu_found,
                   optsBefore, optsNew, optionTried>>
    /\ UNCHANGED <<styleVars, listUse, unsettled>>

\* lines 127-133: with an element, clear() and send_keys(text) run outside
\* any inner try, so a raise reaches the handler of line 640; with none a
\* warning is printed
TextType ==
    /\ pc = "text_type"
    /\ IF cand.there
       THEN /\ Driver
            /\ acted' = cand
            /\ \E r \in TypeResults(cand) :
                  pc' = IF r = "ok" THEN "line_height" ELSE "except"
       ELSE /\ pc' = "line_height"
            /\ UNCHANGED <<acted, opsAfterQuit, drove>>
    /\ ListReset
    /\ FormFrame
    /\ UNCHANGED <<lastClick, letters_menu_opened, letters_menu_found,
                   optsBefore, optsNew, optionTried>>
    /\ UNCHANGED <<styleVars, listUse, unsettled>>

\* lines 136-142: find_element(By.NAME, "lineHeight") and
\* Select(...).select_by_value("0.5"), inside try/except: pass; the element
\* is used as found
LineHeight ==
    /\ pc = "line_height"
    /\ Driver
    /\ \E e \in Lookups : acted' = e
    /\ pc' = "line_style"
    /\ FormFrame
    /\ UNCHANGED <<si, ei, cand, firstMatch, used, lastClick,
                   letters_menu_opened, letters_menu_found, optsBefore,
                   optsNew, optionTried>>
    /\ UNCHANGED <<styleVars, listUse, unsettled>>

\* the guide list: 1 the radio of line 164, 2 the image of line 176,
\* 3..6 the alternative_selectors of lines 188-193
GuideStrategies == 6

\* lines 144-160: guide_found = False
LineStyle ==
    /\ pc = "line_style"
    /\ si' = 1 /\ pc' = "guide_try"
    /\ FormFrame
    /\ UNCHANGED <<ei, cand, firstMatch, used, acted, lastClick,
                   letters_menu_opened, letters_menu_found, optsBefore,
                   optsNew, optionTried, opsAfterQuit, drove>>
    /\ UNCHANGED <<styleVars, listUse, unsettled>>

\* the guide list without the guide_found tests of lines 173 and 187 and
\* the break of line 204: the strategies after a successful one still run
GuideTry_NoBreak ==
    /\ pc = "guide_try"
    /\ Driver
    /\ \E e \in Lookups :
          /\ firstMatch' = IF e.there /\ firstMatch = 0 THEN si
                                                       ELSE firstMatch
          /\ acted' = IF e.there THEN e ELSE acted
          /\ \E r \in NativeClicks(e) :
                /\ used' = IF e.there /\ r = "ok" THEN si ELSE used
                /\ lastClick' = IF ~e.there THEN lastClick
                                ELSE IF r = "ok" THEN "native"
                                ELSE "native_failed"
          /\ IF si < GuideStrategies
             THEN si' = si + 1 /\ pc' = pc
             ELSE pc' = "letter_style" /\ UNCHANGED si
    /\ FormFrame
    /\ UNCHANGED <<ei, cand, letters_menu_opened, letters_menu_found,
                   optsBefore, optsNew, optionTried>>
    /\ unsettled' = (used' # 0)
    /\ UNCHANGED <<styleVars, listUse>>

\* lines 163-206: one strategy of the guide list: the first element the
\* lookup yields is clicked (or selected) as found; a raise is absorbed and
\* the next strategy runs; after the last one, lines 208-213
GuideTry ==
    /\ pc = "guide_try"
    /\ Driver
    /\ \E e \in Lookups :
          IF e.there
          THEN /\ firstMatch' = IF firstMatch = 0 THEN si ELSE firstMatch
               /\ acted' = e
               /\ \E r \in NativeClicks(e) :
                     IF r = "ok"
                     THEN /\ used' = si /\ lastClick' = "native"
                          /\ pc' = "letter_style"
                          /\ UNCHANGED si
                     ELSE /\ lastClick' = "native_failed"
                          /\ UNCHANGED used
                          /\ IF si < GuideStrategies
                             THEN si' = si + 1 /\ pc' = pc
                             ELSE pc' = "letter_style" /\ UNCHANGED si
          ELSE /\ UNCHANGED <<firstMatch, acted, used, lastClick>>
               /\ IF si < GuideStrategies
                  THEN si' = si + 1 /\ pc' = pc
                  ELSE pc' = "letter_style" /\ UNCHANGED si
    /\ FormFrame
    /\ UNCHANGED <<ei, cand, letters_menu_opened, letters_menu_found,
                   optsBefore, optsNew, optionTried>>
    /\ unsettled' = (used' # 0)
    /\ UNCHANGED <<styleVars, listUse>>

\* the loop over a list of n selectors goes on, at the control point
\* `loop`, to the next selector, or leaves for `exit` after the last one
NextStrategyAt(loop, n, exit) ==
    IF si < n
    THEN si' = si + 1 /\ ei' = 1 /\ pc' = loop
    ELSE pc' = exit /\ UNCHANGED <<si, ei>>

\* the inner loop goes on to the next element of the selector's list
NextElementAt(loop, n, exit) ==
    IF ei < MaxElems
    THEN ei' = ei + 1 /\ pc' = loop /\ UNCHANGED si
    ELSE NextStrategyAt(loop, n, exit)

\* the same for a step taken at the control point of the loop
NextStrategy(n, exit) == NextStrategyAt(pc, n, exit)
NextElement(n, exit) == NextElementAt(pc, n, exit)

\* the five letters_menu_selectors of lines 227-238
MenuStrategies == 5

\* the list of menu openers now iterated (lines 242-243) was looked up
\* when its first element was reached: nothing of it has been clicked
\* then; "reused" stays until the loop over the selectors is left
ListPrior ==
    IF listUse = "reused" \/ ei > 1 THEN listUse ELSE "none"

\* a click on an element of the list went through: the first one of the
\* list, or one on an element that was located before an earlier click
ListClicked ==
    IF ListPrior = "none" THEN "clicked" ELSE "reused"

\* lines 215-238: letters_menu_found = False, letters_menu_opened = False;
\* the page may already show controls that the check of line 256 matches
LetterStyle ==
    /\ pc = "letter_style"
    /\ letters_menu_opened' = FALSE /\ letters_menu_found' = FALSE
    /\ optsNew' = FALSE /\ optionTried' = FALSE
    /\ optsBefore' \in BOOLEAN
    /\ si' = 1 /\ ei' = 1 /\ cand' = NoEl /\ firstMatch' = 0 /\ used' = 0
    /\ acted' = NoEl /\ lastClick' = "none"
    /\ pc' = "menu_try"
    /\ FormFrame
    /\ UNCHANGED <<opsAfterQuit, drove>>
    /\ listUse' = "none"
    /\ UNCHANGED <<styleVars, unsettled>>

\* what can happen to an element of a list before it is clicked:
\* is_displayed() (and is_enabled()) raises; the element fails the test;
\* it passes and the print that reads tag_name or text raises; the
\* scroll raises; or the click is reached
BeforeClick(e, shown) ==
    {"check_raises"} \cup
    (IF shown THEN {"print_raises", "scroll_raises", "click"}
              ELSE {"fails"})

\* lines 240-248 and 265-274: one element of one selector's list: an
\* element that is displayed is scrolled to, and the sleep of line 249
\* follows; a raise of the scroll (inner try, line 246) goes to the next
\* element, a raise of is_displayed() or of the print of line 245 (outer
\* try, line 241) goes to the next selector
MenuTry ==
    /\ pc = "menu_try"
    /\ Driver
    /\ \E e \in Lookups :
          IF ~e.there
          THEN /\ NextStrategy(MenuStrategies, "letter_option")
               /\ listUse' = ListPrior
               /\ UNCHANGED <<firstMatch, used, acted, lastClick>>
          ELSE \E b \in BeforeClick(e, e.vis) :
             IF b = "check_raises"
             THEN /\ NextStrategy(MenuStrategies, "letter_option")
                  /\ listUse' = ListPrior
                  /\ UNCHANGED <<firstMatch, used, acted, lastClick>>
             ELSE IF b = "fails"
             THEN /\ NextElement(MenuStrategies, "letter_option")
                  /\ listUse' = ListPrior
                  /\ UNCHANGED <<firstMatch, used, acted, lastClick>>
             ELSE /\ firstMatch' = IF firstMatch = 0 THEN si ELSE firstMatch
                  /\ IF b = "print_raises"
                     THEN /\ NextStrategy(MenuStrategies, "letter_option")
                          /\ listUse' = ListPrior
                          /\ UNCHANGED <<used, acted, lastClick>>
                     ELSE IF b = "scroll_raises"
                     THEN /\ NextElement(MenuStrategies, "letter_option")
                          /\ listUse' = ListPrior
                          /\ UNCHANGED <<used, acted, lastClick>>
                     ELSE /\ listUse' = ListPrior
                          /\ pc' = "menu_click"
                          /\ UNCHANGED <<si, ei, used, acted, lastClick>>
    /\ FormFrame
    /\ UNCHANGED <<cand, letters_menu_opened, letters_menu_found,
                   optsBefore, optsNew, optionTried>>
    /\ unsettled' = FALSE
    /\ UNCHANGED styleVars

\* lines 249-252 and 265-267: after the sleep, element.click() on the
\* displayed element (whether it is enabled was not asked): a raise goes
\* to the next element of the list; after a click that went through
\* comes the sleep of line 253
MenuClick ==
    /\ pc = "menu_click"
    /\ Driver
    /\ \E e \in {x \in Elements : x.vis} : \E r \in NativeClicks(e) :
          /\ acted' = e
          /\ IF r = "raises"
             THEN /\ lastClick' = "native_failed"
                  /\ NextElementAt("menu_try", MenuStrategies,
                                   "letter_option")
                  /\ UNCHANGED listUse
             ELSE /\ lastClick' = "native"
                  /\ listUse' = ListClicked
                  /\ pc' = "menu_check"
                  /\ UNCHANGED <<si, ei>>
    /\ FormFrame
    /\ UNCHANGED <<cand, firstMatch, used, letters_menu_opened,
                   letters_menu_found, optsBefore, optsNew, optionTried>>
    /\ UNCHANGED <<styleVars, unsettled>>

\* lines 253-263: after the click, sleep(2) and the lookup of line 256:
\* the menu counts as opened when the lookup yields anything; with
\* nothing, or when the lookup raises, the loop goes on to the next
\* element of the list
MenuCheck ==
    /\ pc = "menu_check"
    /\ Driver
    /\ \E raises \in BOOLEAN, appeared \in BOOLEAN :
          IF raises
          THEN /\ NextElementAt("menu_try", MenuStrategies, "letter_option")
               /\ UNCHANGED <<used, letters_menu_opened, optsNew>>
          ELSE /\ optsNew' = (optsNew \/ appeared)
               /\ IF optsBefore \/ optsNew \/ appeared
                  THEN /\ letters_menu_opened' = TRUE
                       /\ used' = si
                       /\ pc' = "letter_option"
                       /\ UNCHANGED <<si, ei>>
                  ELSE /\ NextElementAt("menu_try", MenuStrategies,
                                        "letter_option")
                       /\ UNCHANGED <<used, letters_menu_opened>>
    /\ FormFrame
    /\ UNCHANGED <<cand, firstMatch, acted, lastClick, letters_menu_found,
                   optsBefore, optionTried>>
    /\ UNCHANGED <<styleVars, listUse, unsettled>>

\* the words of the letter-style block, as sequences of characters
Dashed == <<"d", "a", "s", "h", "e", "d">>
Solid == <<"s", "o", "l", "i", "d">>
Outline == <<"o", "u", "t", "l", "i", "n", "e">>
Filled == <<"f", "i", "l", "l", "e", "d">>
CapDashed == <<"D", "a", "s", "h", "e", "d">>
CapSolid == <<"S", "o", "l", "i", "d">>
CapOutline == <<"O", "u", "t", "l", "i", "n", "e">>
CapFilled == <<"F", "i", "l", "l", "e", "d">>
\* the control names of lines 358-361
NameLetterStyle ==
    <<"l", "e", "t", "t", "e", "r", "S", "t", "y", "l", "e">>
NameLetters == <<"l", "e", "t", "t", "e", "r", "s">>

\* the choices of --letter-style (lines 671-673)
LetterStyles == {Dashed, Solid, Outline}

\* the cased letters
LowerCase ==
    <<"a", "b", "c", "d", "e", "f", "g", "h", "i", "j", "k", "l", "m",
      "n", "o", "p", "q", "r", "s", "t", "u", "v", "w", "x", "y", "z">>
UpperCase ==
    <<"A", "B", "C", "D", "E", "F", "G", "H", "I", "J", "K", "L", "M",
      "N", "O", "P", "Q", "R", "S", "T", "U", "V", "W", "X", "Y", "Z">>

\* str.upper and str.lower on one character
Upper(c) ==
    IF \E i \in 1..Len(LowerCase) : LowerCase[i] = c
    THEN UpperCase[CHOOSE i \in 1..Len(LowerCase) : LowerCase[i] = c]
    ELSE c
Lower(c) ==
    IF \E i \in 1..Len(UpperCase) : UpperCase[i] = c
    THEN LowerCase[CHOOSE i \in 1..Len(UpperCase) : UpperCase[i] = c]
    ELSE c

\* str.capitalize(): the first character in upper case, the rest in lower
\* case
Capitalize(w) ==
    [i \in 1..Len(w) |-> IF i = 1 THEN Upper(w[i]) ELSE Lower(w[i])]

\* the style_mappings of lines 281-285
style_mappings(style) ==
    CASE style = Dashed -> <<Dashed, Outline, CapDashed, CapOutline>>
      [] style = Solid -> <<Solid, Filled, CapSolid, CapFilled>>
      [] style = Outline -> <<Outline, Dashed, CapOutline, CapDashed>>
      [] OTHER -> <<style, Capitalize(style)>>

\* the words of the option lookups of Step 3: lines 332 and 340 after an
\* image, lines 403 and 430 after a section or a clickable element
ImageWords(style) ==
    {style, Outline, Capitalize(style), CapOutline}
NearbyWords(style) == {style, Outline}

\* what the selector ei of letter_style_selectors (lines 357-367) finds
\* its element by; a select found by name or id has the option of line 373
\* chosen
SelectorWords(i, style) ==
    CASE i \in {1, 3} -> {NameLetterStyle, Capitalize(style)}
      [] i \in {2, 4} -> {NameLetters, Capitalize(style)}
      [] i \in {5, 7} -> {style}
      [] i \in {6, 8} -> {Outline}
      [] OTHER -> {style, Outline}

\* the words an option lookup of the approach a (and selector i) uses
AltWords(a, i, style) ==
    IF a = 1 THEN ImageWords(style)
    ELSE IF a = 2 THEN SelectorWords(i, style)
    ELSE NearbyWords(style)

\* the run clicks an option found by the lookup for the value i of the
\* possible_values of line 287. The letter_style argument is fixed for the
\* run and nothing before the first click on an option depends on it (the
\* lookups before it return what the page holds for whatever style), so
\* the model draws it here
PickValue(i) ==
    \E style \in LetterStyles :
        /\ letter_style' = style
        /\ matchedOn' = style_mappings(style)[i]

\* the same for an option found by a lookup of Step 3
PickAlt(a, i) ==
    \E style \in LetterStyles :
        /\ letter_style' = style
        /\ matchedOn' \in AltWords(a, i, style)

\* the possible_values of lines 281-287 for a style of the mapping
OptionValues == 4
\* per value: 1 the radio lookup of line 292, 2 the text lookup of line 303
OptionKinds == 2

\* Step 2 without the test of line 277
LetterOption_Ungated ==
    /\ pc = "letter_option"
    /\ pc' = "option_try"
    /\ si' = 1 /\ ei' = 1 /\ cand' = NoEl /\ firstMatch' = 0 /\ used' = 0
    /\ FormFrame
    /\ UNCHANGED <<acted, lastClick, letters_menu_opened, letters_menu_found,
                   optsBefore, optsNew, optionTried, opsAfterQuit, drove>>
    /\ listUse' = "none"
    /\ UNCHANGED <<styleVars, unsettled>>

\* lines 276-278: Step 2 runs only with letters_menu_opened
LetterOption ==
    /\ pc = "letter_option"
    /\ pc' = IF letters_menu_opened THEN "option_try" ELSE "letter_alt"
    /\ si' = 1 /\ ei' = 1 /\ cand' = NoEl /\ firstMatch' = 0 /\ used' = 0
    /\ FormFrame
    /\ UNCHANGED <<acted, lastClick, letters_menu_opened, letters_menu_found,
                   optsBefore, optsNew, optionTried, opsAfterQuit, drove>>
    /\ listUse' = "none"
    /\ UNCHANGED <<styleVars, unsettled>>

\* the loop of line 289 goes on: from the radio lookup to the text lookup
\* of the same value, then to the next value
NextOption ==
    IF ei < OptionKinds
    THEN ei' = ei + 1 /\ pc' = pc /\ UNCHANGED si
    ELSE IF si < OptionValues
    THEN si' = si + 1 /\ ei' = 1 /\ pc' = pc
    ELSE pc' = "letter_alt" /\ UNCHANGED <<si, ei>>

\* what OptionTry leaves alone
OptionFrame ==
    /\ FormFrame
    /\ UNCHANGED <<cand, firstMatch, letters_menu_opened, optsBefore,
                   optsNew>>
    /\ unsettled' = letters_menu_found'
    /\ UNCHANGED listUse

\* the radio lookup of a value with the break of line 297 left out: the
\* text lookup of the same value follows a radio that was clicked
OptionTry_NoBreak ==
    /\ pc = "option_try"
    /\ Driver
    /\ optionTried' = TRUE
    /\ \E e \in Lookups :
          IF e.there
          THEN /\ acted' = e
               /\ radioOnPage' = (radioOnPage \/ ei = 1)
               /\ \E r \in NativeClicks(e) :
                     IF r = "ok"
                     THEN /\ letters_menu_found' = TRUE
                          /\ PickValue(si)
                          /\ used' = si /\ lastClick' = "native"
                          /\ radioRes' = IF ei = 1 THEN "clicked" ELSE radioRes
                          /\ IF ei = 1
                             THEN ei' = 2 /\ pc' = pc /\ UNCHANGED si
                             ELSE pc' = "letter_alt" /\ UNCHANGED <<si, ei>>
                     ELSE /\ lastClick' = "native_failed"
                          /\ radioRes' = IF ei = 1 THEN "raised" ELSE "untried"
                          /\ NextOption
                          /\ UNCHANGED <<used, letters_menu_found,
                                         matchedOn, letter_style>>
          ELSE /\ radioRes' = IF ei = 1 THEN "none" ELSE "untried"
               /\ NextOption
               /\ UNCHANGED <<used, acted, lastClick,
                              letters_menu_found, matchedOn, radioOnPage,
                              letter_style>>
    /\ OptionFrame

\* lines 289-313: one lookup for one value (si) and one kind (ei): the
\* first element found is clicked as found and the loop is left; a raise is
\* absorbed and the loop goes on. radioRes keeps what the radio lookup of
\* the value gave; radioOnPage tells whether the page holds a radio for a
\* value of the list, one the loop never came to look up included
OptionTry ==
    /\ pc = "option_try"
    /\ Driver
    /\ optionTried' = TRUE
    /\ \E e \in Lookups :
          IF e.there
          THEN /\ acted' = e
               /\ \E r \in NativeClicks(e) :
                     IF r = "ok"
                     THEN /\ letters_menu_found' = TRUE
                          /\ PickValue(si)
                          /\ used' = si /\ lastClick' = "native"
                          /\ radioRes' = IF ei = 1 THEN "clicked" ELSE radioRes
                          /\ \E later \in IF ei = 2 /\ si < OptionValues
                                           THEN BOOLEAN ELSE {FALSE} :
                                radioOnPage' = (radioOnPage \/ ei = 1 \/ later)
                          /\ pc' = "letter_alt"
                          /\ UNCHANGED <<si, ei>>
                     ELSE /\ lastClick' = "native_failed"
                          /\ radioRes' = IF ei = 1 THEN "raised" ELSE "untried"
                          /\ radioOnPage' = (radioOnPage \/ ei = 1)
                          /\ NextOption
                          /\ UNCHANGED <<used, letters_menu_found,
                                         matchedOn, letter_style>>
          ELSE /\ radioRes' = IF ei = 1 THEN "none" ELSE "untried"
               /\ NextOption
               /\ UNCHANGED <<used, acted, lastClick,
                              letters_menu_found, matchedOn, radioOnPage,
                              letter_style>>
    /\ OptionFrame

\* the alternative approaches of Step 3: 1 the images of line 322, 2 the
\* letter_style_selectors of lines 357-367, 3 the sections of line 393,
\* 4 the clickable elements of line 421
AltApproaches == 4
AltSelectors == 9

\* lines 315-317: the alternative approaches run whenever Step 2 selected
\* nothing, whether or not a menu was opened
LetterAlt ==
    /\ pc = "letter_alt"
    /\ pc' = IF letters_menu_found THEN "confirm" ELSE "alt_try"
    /\ si' = 1 /\ ei' = 1 /\ cand' = NoEl /\ firstMatch' = 0 /\ used' = 0
    /\ acted' = NoEl /\ lastClick' = "none"
    /\ FormFrame
    /\ UNCHANGED <<letters_menu_opened, letters_menu_found,
                   optsBefore, optsNew, optionTried, opsAfterQuit, drove>>
    /\ radioOnPage' = FALSE /\ radioRes' = "untried"
    /\ UNCHANGED <<letter_style, matchedOn, listUse, unsettled>>

\* lines 322-328, 393-398, 421-426: an approach that opens something
\* first: one element of its list is clicked (approach 4 clicks only an
\* element that is displayed and enabled); a raise goes to the next
\* element; after the click comes the sleep of line 329, 399 or 427
AltOpen(checks) ==
    /\ \E e \in Lookups :
          IF ~e.there
          THEN /\ NextStrategy(AltApproaches, "confirm")
               /\ UNCHANGED <<acted, lastClick>>
          ELSE IF checks /\ ~Clickable(e)
          THEN /\ NextElement(AltApproaches, "confirm")
               /\ UNCHANGED <<acted, lastClick>>
          ELSE \E r \in NativeClicks(e) :
             IF r = "raises"
             THEN /\ acted' = e /\ lastClick' = "native_failed"
                  /\ NextElement(AltApproaches, "confirm")
             ELSE /\ acted' = e /\ lastClick' = "native"
                  /\ pc' = "alt_pick"
                  /\ UNCHANGED <<si, ei>>
    /\ UNCHANGED <<used, letters_menu_found, optionTried, matchedOn,
                   letter_style>>

\* lines 369-384: one selector of letter_style_selectors: find_element and
\* a click (or a select) on what it returns; a raise goes to the next one;
\* the index of the selector is not read after the break of line 382
AltSelect ==
    /\ optionTried' = TRUE
    /\ \E e \in Lookups : \E r \in NativeClicks(e) :
          IF e.there /\ r = "ok"
          THEN /\ acted' = e /\ lastClick' = "native"
               /\ letters_menu_found' = TRUE /\ used' = si
               /\ PickAlt(si, ei)
               /\ pc' = "confirm"
               /\ ei' = 1 /\ UNCHANGED si
          ELSE /\ acted' = IF e.there THEN e ELSE acted
               /\ lastClick' = IF e.there THEN "native_failed" ELSE lastClick
               /\ UNCHANGED <<used, letters_menu_found, matchedOn,
                              letter_style>>
               /\ IF ei < AltSelectors
                  THEN ei' = ei + 1 /\ pc' = pc /\ UNCHANGED si
                  ELSE NextStrategy(AltApproaches, "confirm")

\* lines 319-440: one iteration of the approach si
AltTry ==
    /\ pc = "alt_try"
    /\ Driver
    /\ IF si = 2
       THEN AltSelect
       ELSE AltOpen(si = 4)
    /\ FormFrame
    /\ UNCHANGED <<cand, firstMatch, letters_menu_opened, optsBefore,
                   optsNew>>
    /\ unsettled' = letters_menu_found'
    /\ UNCHANGED <<radioOnPage, radioRes, listUse>>

\* lines 331-348, 402-412, 430-437: after the sleep, the lookup of the
\* options and a click on the first one found: a click that goes through
\* ends the search; nothing found, or a raise, goes to the next element
\* of the approach's list
AltPick ==
    /\ pc = "alt_pick"
    /\ Driver
    /\ optionTried' = TRUE
    /\ \E opt \in Lookups :
          IF ~opt.there
          THEN /\ NextElementAt("alt_try", AltApproaches, "confirm")
               /\ UNCHANGED <<used, acted, lastClick, letters_menu_found,
                              matchedOn, letter_style>>
          ELSE /\ acted' = opt
               /\ \E r2 \in NativeClicks(opt) :
                     IF r2 = "ok"
                     THEN /\ letters_menu_found' = TRUE
                          /\ PickAlt(si, ei)
                          /\ used' = si /\ lastClick' = "native"
                          /\ pc' = "confirm"
                          /\ UNCHANGED <<si, ei>>
                     ELSE /\ lastClick' = "native_failed"
                          /\ NextElementAt("alt_try", AltApproaches,
                                           "confirm")
                          /\ UNCHANGED <<used, letters_menu_found,
                                         matchedOn, letter_style>>
    /\ FormFrame
    /\ UNCHANGED <<cand, firstMatch, letters_menu_opened, optsBefore,
                   optsNew>>
    /\ unsettled' = letters_menu_found'
    /\ UNCHANGED <<radioOnPage, radioRes, listUse>>

\* the ten ok_button_selectors of lines 449-466
ConfirmStrategies == 10

\* lines 442-466: ok_button_found = False; the locals of Steps 1-3 are
\* not read again
Confirm ==
    /\ pc = "confirm"
    /\ si' = 1 /\ ei' = 1 /\ cand' = NoEl /\ firstMatch' = 0 /\ used' = 0
    /\ acted' = NoEl /\ lastClick' = "none"
    /\ LettersReset
    /\ pc' = "confirm_try"
    /\ FormFrame
    /\ UNCHANGED <<opsAfterQuit, drove>>
    /\ listUse' = "none"
    /\ UNCHANGED unsettled

\* lines 468-476 and 486-503: one button of one selector's list: a button
\* that is displayed and enabled is scrolled to, and the sleep of line 477
\* follows; a raise of the scroll goes straight to the script click of
\* line 490, and when that raises too the next button is tried; a raise
\* of the test of line 472 or of the print of line 473 goes to the next
\* selector
ConfirmTry ==
    /\ pc = "confirm_try"
    /\ Driver
    /\ \E e \in Lookups :
          IF ~e.there
          THEN /\ NextStrategy(ConfirmStrategies, "paper_size")
               /\ UNCHANGED <<firstMatch, used, acted, lastClick>>
          ELSE \E b \in BeforeClick(e, Clickable(e)) :
             IF b = "check_raises"
             THEN /\ NextStrategy(ConfirmStrategies, "paper_size")
                  /\ UNCHANGED <<firstMatch, used, acted, lastClick>>
             ELSE IF b = "fails"
             THEN /\ NextElement(ConfirmStrategies, "paper_size")
                  /\ UNCHANGED <<firstMatch, used, acted, lastClick>>
             ELSE /\ firstMatch' = IF firstMatch = 0 THEN si ELSE firstMatch
                  /\ IF b = "print_raises"
                     THEN /\ NextStrategy(ConfirmStrategies, "paper_size")
                          /\ UNCHANGED <<used, acted, lastClick>>
                     ELSE /\ acted' = e
                          /\ IF b = "scroll_raises"
                             THEN \E r \in {"script", "both_failed"} :
                                /\ lastClick' = r
                                /\ IF r = "both_failed"
                                   THEN /\ NextElement(ConfirmStrategies,
                                                       "paper_size")
                                        /\ UNCHANGED used
                                   ELSE /\ used' = si
                                        /\ pc' = "paper_size"
                                        /\ UNCHANGED <<si, ei>>
                             ELSE /\ pc' = "confirm_click"
                                  /\ UNCHANGED <<si, ei, used, lastClick>>
    /\ FormFrame
    /\ UNCHANGED <<cand, letters_menu_opened, letters_menu_found,
                   optsBefore, optsNew, optionTried>>
    /\ unsettled' = FALSE
    /\ UNCHANGED <<styleVars, listUse>>

\* lines 477-499: after the sleep, btn.click(), with the script click of
\* line 490 when it raises; when both raise the next button is tried; a
\* click that went through is followed by the sleep of line 483 or 493
\* and ends the loops
ConfirmClick ==
    /\ pc = "confirm_click"
    /\ Driver
    /\ \E r \in {"native", "script", "both_failed"} :
          /\ lastClick' = r
          /\ IF r = "both_failed"
             THEN /\ NextElementAt("confirm_try", ConfirmStrategies,
                                   "paper_size")
                  /\ UNCHANGED used
             ELSE /\ used' = si
                  /\ pc' = "paper_size"
                  /\ UNCHANGED <<si, ei>>
    /\ FormFrame
    /\ UNCHANGED <<cand, firstMatch, acted, letters_menu_opened,
                   letters_menu_found, optsBefore, optsNew, optionTried>>
    /\ UNCHANGED <<styleVars, listUse, unsettled>>

\* lines 515-521: find_element(By.NAME, "paperSize") and
\* Select(...).select_by_value("letter"), inside try/except: pass
PaperSize ==
    /\ pc = "paper_size"
    /\ Driver
    /\ \E e \in Lookups : acted' = e
    /\ lastClick' = "none"
    /\ ListReset
    /\ pc' = "find_create"
    /\ FormFrame
    /\ UNCHANGED <<letters_menu_opened, letters_menu_found, optsBefore,
                   optsNew, optionTried>>
    /\ UNCHANGED <<styleVars, listUse, unsettled>>

\* the five button_selectors of lines 525-531
CreateStrategies == 5

\* lines 523-531: create_button = None
FindCreate ==
    /\ pc = "find_create"
    /\ si' = 1 /\ pc' = "create_try"
    /\ FormFrame
    /\ UNCHANGED <<ei, cand, firstMatch, used, acted, lastClick,
                   letters_menu_opened, letters_menu_found, optsBefore,
                   optsNew, optionTried, opsAfterQuit, drove>>
    /\ UNCHANGED <<styleVars, listUse, unsettled>>

\* the selector loop without the else branch of lines 636-638: with no
\* button the run goes on to the detection methods
CreateTry_FallsThrough ==
    /\ pc = "create_try"
    /\ Driver
    /\ \E found \in BOOLEAN :
          IF found
          THEN /\ cand' = El(TRUE, TRUE)
               /\ firstMatch' = si /\ used' = si
               /\ pc' = "click_create"
               /\ UNCHANGED <<si, retval>>
          ELSE /\ UNCHANGED <<cand, firstMatch, used, retval>>
               /\ IF si < CreateStrategies
                  THEN si' = si + 1 /\ pc' = pc
                  ELSE pc' = "method1" /\ UNCHANGED si
    /\ UNCHANGED <<session, dir, initial_files, wfdVars, acqVars, mstat,
                   submitted, persisted, renamed, endVars, ei, acted,
                   lastClick, letters_menu_opened, letters_menu_found,
                   optsBefore, optsNew, optionTried>>
    /\ UNCHANGED <<styleVars, listUse, unsettled>>

\* lines 533-541 and 636-638: one selector of the loop:
\* WebDriverWait(driver, 5).until(element_to_be_clickable(...)) returns a
\* displayed and enabled element and the loop breaks, or raises and the
\* loop goes on; with no button at all the run returns False
CreateTry ==
    /\ pc = "create_try"
    /\ Driver
    /\ \E found \in BOOLEAN :
          IF found
          THEN /\ cand' = El(TRUE, TRUE)
               /\ firstMatch' = si /\ used' = si
               /\ pc' = "click_create"
               /\ UNCHANGED <<si, retval>>
          ELSE /\ UNCHANGED <<cand, firstMatch, used>>
               /\ IF si < CreateStrategies
                  THEN si' = si + 1 /\ pc' = pc /\ UNCHANGED retval
                  ELSE retval' = "False" /\ pc' = "finally" /\ UNCHANGED si
    /\ UNCHANGED <<session, dir, initial_files, wfdVars, acqVars, mstat,
                   submitted, persisted, renamed, endVars, ei, acted,
                   lastClick, letters_menu_opened, letters_menu_found,
                   optsBefore, optsNew, optionTried>>
    /\ UNCHANGED <<styleVars, listUse, unsettled>>

\* lines 543-555: scrollIntoView outside any inner try, then click(), and
\* a script click when that raises; a raise of the scroll or of the script
\* click reaches the handler of line 640
ClickCreate ==
    /\ pc = "click_create"
    /\ Driver
    /\ \E r \in {"scroll_raises", "native", "script", "both_failed"} :
          /\ acted' = IF r = "scroll_raises" THEN acted ELSE cand
          /\ lastClick' = IF r = "scroll_raises" THEN lastClick ELSE r
          /\ submitted' = (r \in {"native", "script"})
          /\ pc' = IF r \in {"native", "script"} THEN "method1" ELSE "except"
    /\ ListReset
    /\ UNCHANGED <<session, dir, initial_files, wfdVars, acqVars, mstat,
                   persisted, renamed, retval, endVars, letters_menu_opened,
                   letters_menu_found, optsBefore, optsNew, optionTried>>
    /\ UNCHANGED <<styleVars, listUse, unsettled>>

\* lines 557-562: Method 1 starts: wait_for_pdf_download(download_dir,
\* initial_files, timeout=15); the form locals are not read again
Method1Start ==
    /\ pc = "method1"
    /\ SetMethod(1, "running")
    /\ CallWait("m1", Method1Timeout)
    /\ acted' = NoEl /\ lastClick' = "none"
    /\ UNCHANGED <<session, dir, initial_files, acqVars, submitted,
                   persisted, renamed, retval, endVars, opsAfterQuit, drove,
                   si, ei, cand, firstMatch, used, letters_menu_opened,
                   letters_menu_found, optsBefore, optsNew, optionTried>>
    /\ UNCHANGED <<styleVars, listUse, unsettled>>

\* os.rename(os.path.join(download_dir, src), final_path): the entry gets
\* the caller's name
Renamed(d, src) == (d \ {src}) \cup {output_file}

\* the locals of a finished wait_for_pdf_download call are not read again
WaitOver ==
    /\ caller' = "none" /\ timeout' = 0 /\ elapsed' = 0
    /\ pdf_files' = {} /\ sawPartial' = FALSE /\ pdfInWindow' = FALSE
    /\ pdf_file' = None

\* the locals of Method 2 are not read after it
Method2Over == current_url' = None /\ handles' = 0 /\ new_url' = None

\* the locals of Method 4 are not read after it
Method4Over == buttons' = 0 /\ bi' = 0

\* lines 562-566: Method 1 found a file: rename it and return True (a
\* rename that raises is outside any inner try); no file: go on to Method 2
Method1 ==
    /\ pc = "m1_ret"
    /\ IF Truthy(pdf_file)
       THEN \E ok \in {b \in BOOLEAN : b => pdf_file \in dir} :
               IF ok
               THEN /\ dir' = Renamed(dir, pdf_file)
                    /\ persisted' = "rename"
                    /\ renamed' = pdf_file
                    /\ retval' = "True"
                    /\ SetMethod(1, "succeeded")
                    /\ pc' = "finally"
               ELSE /\ SetMethod(1, "failed")
                    /\ pc' = "except"
                    /\ UNCHANGED <<dir, persisted, renamed, retval>>
       ELSE /\ SetMethod(1, "failed")
            /\ pc' = "m2"
            /\ UNCHANGED <<dir, persisted, renamed, retval>>
    /\ WaitOver
    /\ UNCHANGED <<session, initial_files, acqVars, submitted, endVars,
                   opsAfterQuit, drove>>
    /\ UNCHANGED formVars

\* new_url.endswith('.pdf'), line 585
IsPdfUrl(u) == EndsWith(u, PDF)

\* lines 570-579: sleep, read the address (it is only printed), and with
\* more than one window handle (line 577) switch to the last handle of
\* driver.window_handles, which line 579 reads again: the list may have
\* changed between the two reads, and when the extra window has closed
\* its last handle is the window the driver is already in; with one
\* handle at line 577 Method 2 is over. A raise of lines 573-579 (an
\* empty list at line 579 among them) reaches the handler of line 640
\* with the driver where it was, the locals being lost
Method2 ==
    /\ pc = "m2"
    /\ Driver
    /\ \E raises \in BOOLEAN, u \in Urls, h \in 1..MaxWindows,
          last \in 1..MaxWindows :
          IF raises
          THEN /\ SetMethod(2, "failed")
               /\ pc' = "except"
               /\ UNCHANGED <<current_url, handles, context>>
          ELSE /\ current_url' = u
               /\ handles' = h
               /\ IF h > 1
                  THEN /\ context' = last
                       /\ pc' = "m2_window"
                       /\ UNCHANGED mstat
                  ELSE /\ SetMethod(2, "failed")
                       /\ pc' = "m3"
                       /\ UNCHANGED context
    /\ UNCHANGED new_url
    /\ UNCHANGED <<session, dir, initial_files, wfdVars, href, buttons, bi,
                   submitted, persisted, renamed, retval, endVars>>
    /\ UNCHANGED formVars

\* lines 580-585: in the window switched to, sleep(3), then read its
\* address: one that ends in .pdf is fetched, any other goes on to
\* Method 3, the driver staying in that window. A raise of line 582 reaches the
\* handler of line 640 after the switch, the locals being lost
Method2Window ==
    /\ pc = "m2_window"
    /\ Driver
    /\ \E raises \in BOOLEAN, nu \in Urls :
          IF raises
          THEN /\ SetMethod(2, "failed")
               /\ pc' = "except"
               /\ Method2Over
               /\ UNCHANGED context
          ELSE /\ new_url' = nu
               /\ IF IsPdfUrl(nu)
                  THEN /\ SetMethod(2, "running")
                       /\ pc' = "m2_fetch"
                  ELSE /\ SetMethod(2, "failed")
                       /\ pc' = "m3"
               /\ UNCHANGED <<current_url, handles, context>>
    /\ UNCHANGED <<session, dir, initial_files, wfdVars, href, buttons, bi,
                   submitted, persisted, renamed, retval, endVars>>
    /\ UNCHANGED formVars

\* response = requests.get(url); with open(output_file, 'wb') as f:
\* f.write(response.content): what can happen.  requests.get is called
\* with no timeout argument: against a server that accepts the connection
\* and never answers the call does not return.
FetchResults ==
    {"ok", "get_raises", "get_hangs", "open_raises", "write_raises"}

\* the directory after a fetch: open(..., 'wb') creates the file
AfterFetch(d, r) ==
    IF r \in {"ok", "write_raises"} THEN d \cup {output_file} ELSE d

\* output_file after a fetch
FetchPersisted(p, r) ==
    IF r = "ok" THEN "write" ELSE IF r = "write_raises" THEN "partial" ELSE p

\* Method 2 with `return True` reached whatever the fetch did
Method2Fetch_ReturnsAnyway ==
    /\ pc = "m2_fetch"
    /\ \E r \in FetchResults :
          /\ dir' = AfterFetch(dir, r)
          /\ persisted' = FetchPersisted(persisted, r)
          /\ UNCHANGED renamed
          /\ retval' = "True"
          /\ SetMethod(2, "succeeded")
          /\ pc' = "finally"
    /\ Method2Over
    /\ UNCHANGED <<session, initial_files, wfdVars, context, href, buttons,
                   bi, submitted, endVars, opsAfterQuit, drove>>
    /\ UNCHANGED formVars

\* lines 586-591: fetch the new window's address, outside any inner try
Method2Fetch ==
    /\ pc = "m2_fetch"
    /\ \E r \in FetchResults :
          /\ dir' = AfterFetch(dir, r)
          /\ persisted' = FetchPersisted(persisted, r)
          /\ UNCHANGED renamed
          /\ IF r = "ok"
             THEN /\ retval' = "True"
                  /\ SetMethod(2, "succeeded")
                  /\ pc' = "finally"
             ELSE IF r = "get_hangs"
             THEN /\ pc' = "blocked"
                  /\ UNCHANGED <<retval, mstat>>
             ELSE /\ SetMethod(2, "failed")
                  /\ pc' = "except"
                  /\ UNCHANGED retval
    /\ Method2Over
    /\ UNCHANGED <<session, initial_files, wfdVars, context, href, buttons,
                   bi, submitted, endVars, opsAfterQuit, drove>>
    /\ UNCHANGED formVars

\* lines 595-601: the links whose href contains '.pdf'; the first one's href
Method3 ==
    /\ pc = "m3"
    /\ Driver
    /\ \E raises \in BOOLEAN, links \in 0..1 :
          IF raises
          THEN /\ SetMethod(3, "failed")
               /\ pc' = "except"
               /\ UNCHANGED href
          ELSE IF links > 0
          THEN /\ href' = PdfUrl
               /\ SetMethod(3, "running")
               /\ pc' = "m3_fetch"
          ELSE /\ SetMethod(3, "failed")
               /\ pc' = "m4"
               /\ UNCHANGED href
    /\ Method2Over
    /\ UNCHANGED <<session, dir, initial_files, wfdVars, context, buttons, bi,
                   submitted, persisted, renamed, retval, endVars>>
    /\ UNCHANGED formVars

\* Method 3 without the `return True` of line 608
Method3Fetch_NoReturn ==
    /\ pc = "m3_fetch"
    /\ \E r \in FetchResults :
          /\ dir' = AfterFetch(dir, r)
          /\ persisted' = FetchPersisted(persisted, r)
          /\ UNCHANGED renamed
          /\ IF r = "ok"
             THEN /\ retval' = "True"
                  /\ SetMethod(3, "succeeded")
                  /\ pc' = "m4"
             ELSE IF r = "get_hangs"
             THEN /\ pc' = "blocked"
                  /\ UNCHANGED <<retval, mstat>>
             ELSE /\ SetMethod(3, "failed")
                  /\ pc' = "m4"
                  /\ UNCHANGED retval
    /\ href' = None
    /\ UNCHANGED <<session, initial_files, wfdVars, current_url, handles,
                   context, new_url, buttons, bi, submitted, endVars,
                   opsAfterQuit, drove>>
    /\ UNCHANGED formVars

\* lines 603-610: fetch the href inside try/except Exception
Method3Fetch ==
    /\ pc = "m3_fetch"
    /\ \E r \in FetchResults :
          /\ dir' = AfterFetch(dir, r)
          /\ persisted' = FetchPersisted(persisted, r)
          /\ UNCHANGED renamed
          /\ IF r = "ok"
             THEN /\ retval' = "True"
                  /\ SetMethod(3, "succeeded")
                  /\ pc' = "finally"
             ELSE IF r = "get_hangs"
             THEN /\ pc' = "blocked"
                  /\ UNCHANGED <<retval, mstat>>
             ELSE /\ SetMethod(3, "failed")
                  /\ pc' = "m4"
                  /\ UNCHANGED retval
    /\ href' = None
    /\ UNCHANGED <<session, initial_files, wfdVars, current_url, handles,
                   context, new_url, buttons, bi, submitted, endVars,
                   opsAfterQuit, drove>>
    /\ UNCHANGED formVars

\* line 616: the Download/Save controls
Method4 ==
    /\ pc = "m4"
    /\ Driver
    /\ \E raises \in BOOLEAN, n \in 0..MaxButtons :
          IF raises
          THEN /\ SetMethod(4, "failed")
               /\ pc' = "except"
               /\ UNCHANGED <<buttons, bi>>
          ELSE /\ buttons' = n
               /\ bi' = 1
               /\ SetMethod(4, "running")
               /\ pc' = "m4_loop"
    /\ UNCHANGED <<session, dir, initial_files, wfdVars, current_url, handles,
                   context, new_url, href, submitted, persisted, renamed,
                   retval, endVars>>
    /\ UNCHANGED formVars

\* the click of line 622 followed by a wait whose baseline is the listing
\* at the click instead of the initial_files of line 101
Method4Click_Rebaselined ==
    /\ pc = "m4_loop"
    /\ IF bi > buttons
       THEN /\ retval' = "False"
            /\ UNCHANGED initial_files
            /\ SetMethod(4, "failed")
            /\ pc' = "finally"
            /\ Method4Over
            /\ UNCHANGED <<wfdVars, opsAfterQuit, drove>>
       ELSE /\ Driver
            /\ \E clicked \in BOOLEAN :
                  IF clicked
                  THEN /\ CallWait("m4", Method4Timeout)
                       /\ initial_files' = dir
                       /\ UNCHANGED bi
                  ELSE /\ bi' = bi + 1
                       /\ pc' = "m4_loop"
                       /\ UNCHANGED <<wfdVars, initial_files>>
            /\ UNCHANGED <<buttons, retval, mstat>>
    /\ UNCHANGED <<session, dir, current_url, handles, context,
                   new_url, href, submitted, persisted, renamed, endVars>>
    /\ UNCHANGED formVars

\* lines 618-634: the loop over the controls: click the next one and poll
\* with timeout=10 (a click that raises is caught and the loop goes on);
\* after the last one, return False
Method4Click ==
    /\ pc = "m4_loop"
    /\ IF bi > buttons
       THEN /\ retval' = "False"
            /\ SetMethod(4, "failed")
            /\ pc' = "finally"
            /\ Method4Over
            /\ UNCHANGED <<wfdVars, opsAfterQuit, drove>>
       ELSE /\ Driver
            /\ \E clicked \in BOOLEAN :
                  IF clicked
                  THEN /\ CallWait("m4", Method4Timeout)
                       /\ UNCHANGED bi
                  ELSE /\ bi' = bi + 1
                       /\ pc' = "m4_loop"
                       /\ UNCHANGED wfdVars
            /\ UNCHANGED <<buttons, retval, mstat>>
    /\ UNCHANGED <<session, dir, initial_files, current_url, handles, context,
                   new_url, href, submitted, persisted, renamed, endVars>>
    /\ UNCHANGED formVars

\* lines 625-631: the poll after a click found a file: rename it and return
\* True (a rename that raises is caught and the loop goes on); no file: the
\* loop goes on
Method4Rename ==
    /\ pc = "m4_ret"
    /\ IF Truthy(pdf_file)
       THEN \E ok \in {b \in BOOLEAN : b => pdf_file \in dir} :
               IF ok
               THEN /\ dir' = Renamed(dir, pdf_file)
                    /\ persisted' = "rename"
                    /\ renamed' = pdf_file
                    /\ retval' = "True"
                    /\ SetMethod(4, "succeeded")
                    /\ pc' = "finally"
                    /\ Method4Over
               ELSE /\ bi' = bi + 1
                    /\ pc' = "m4_loop"
                    /\ UNCHANGED <<dir, persisted, renamed, retval, mstat,
                                   buttons>>
       ELSE /\ bi' = bi + 1
            /\ pc' = "m4_loop"
            /\ UNCHANGED <<dir, persisted, renamed, retval, mstat, buttons>>
    /\ WaitOver
    /\ UNCHANGED <<session, initial_files, current_url, handles, context,
                   new_url, href, submitted, endVars, opsAfterQuit, drove>>
    /\ UNCHANGED formVars

\* the handler when the capture sits at the end of the try body and not in
\* a finally block
ExceptHandler_NoCapture ==
    /\ pc = "except"
    /\ retval' = "False"
    /\ pc' = "quit"
    /\ UNCHANGED <<session, dir, initial_files, wfdVars, acqVars, mstat,
                   submitted, persisted, renamed, endVars, opsAfterQuit,
                   drove>>
    /\ UNCHANGED formVars

\* lines 640-644: except Exception: return False
ExceptHandler ==
    /\ pc = "except"
    /\ retval' = "False"
    /\ pc' = "finally"
    /\ UNCHANGED <<session, dir, initial_files, wfdVars, acqVars, mstat,
                   submitted, persisted, renamed, endVars, opsAfterQuit,
                   drove>>
    /\ UNCHANGED formVars

\* driver.save_screenshot(name): writes the file, or fails to write it and
\* returns False, or raises
ShotResults == {"ok", "false", "raises"}

\* the finally block with driver.quit() inside the try of the capture
FinallyScreenshot_SkipsQuit ==
    /\ pc = "finally"
    /\ Driver
    /\ captureTried' = TRUE
    /\ \E r \in ShotResults :
          /\ shot' = r
          /\ pc' = IF r = "raises" THEN "returned" ELSE "finally_src"
          /\ outcome' = IF r = "raises" THEN retval ELSE outcome
    /\ UNCHANGED <<session, dir, initial_files, wfdVars, acqVars, mstat,
                   submitted, persisted, renamed, retval, page_src, srcTried,
                   quitCount, quitAfterCapture, exitStatus>>
    /\ UNCHANGED formVars

\* lines 648-650, 657-658: the screenshot; when it raises, the bare except
\* skips the rest of the capture
FinallyScreenshot ==
    /\ pc = "finally"
    /\ Driver
    /\ captureTried' = TRUE
    /\ \E r \in ShotResults :
          /\ shot' = r
          /\ pc' = IF r = "raises" THEN "quit" ELSE "finally_src"
    /\ UNCHANGED <<session, dir, initial_files, wfdVars, acqVars, mstat,
                   submitted, persisted, renamed, retval, page_src, srcTried,
                   quitCount, quitAfterCapture, exitStatus, outcome>>
    /\ UNCHANGED formVars

\* with open("debug_page_source.html", "w") as f:
\* f.write(driver.page_source): what can happen
SourceResults == {"ok", "open_raises", "source_raises", "write_raises"}

\* the file after the dump: open(..., "w") creates it empty before
\* driver.page_source is read
SourceFile(r) ==
    IF r = "ok" THEN "written"
    ELSE IF r = "open_raises" THEN "absent" ELSE "empty"

\* lines 653-658: the page source dump
FinallySource ==
    /\ pc = "finally_src"
    /\ srcTried' = TRUE
    /\ \E r \in SourceResults :
          /\ page_src' = SourceFile(r)
          /\ IF r = "open_raises"
             THEN UNCHANGED <<opsAfterQuit, drove>>
             ELSE Driver
    /\ pc' = "quit"
    /\ UNCHANGED <<session, dir, initial_files, wfdVars, acqVars, mstat,
                   submitted, persisted, renamed, retval, shot, captureTried,
                   quitCount, quitAfterCapture, exitStatus, outcome>>
    /\ UNCHANGED formVars

\* line 660: driver.quit(), last statement of the finally block; when it
\* raises, the exception replaces the value being returned
FinallyQuit ==
    /\ pc = "quit"
    /\ Driver
    /\ quitCount' = quitCount + 1
    /\ quitAfterCapture' = captureTried
    /\ session' = "quit"
    /\ \E ok \in BOOLEAN : outcome' = IF ok THEN retval ELSE "raised"
    /\ pc' = "returned"
    /\ UNCHANGED <<dir, initial_files, wfdVars, acqVars, mstat, submitted,
                   persisted, renamed, retval, shot, page_src, captureTried,
                   srcTried, exitStatus>>
    /\ UNCHANGED formVars

generate_worksheet_advanced ==
    \/ Navigate \/ WaitBody \/ Snapshot
    \/ TextInput \/ TextAlt \/ TextType \/ LineHeight
    \/ LineStyle \/ GuideTry
    \/ LetterStyle \/ MenuTry \/ MenuClick \/ MenuCheck
    \/ LetterOption \/ OptionTry
    \/ LetterAlt \/ AltTry \/ AltPick \/ Confirm \/ ConfirmTry
    \/ ConfirmClick
    \/ PaperSize \/ FindCreate \/ CreateTry \/ ClickCreate \/ Method1Start
    \/ Method1 \/ Method2 \/ Method2Window \/ Method2Fetch
    \/ Method3 \/ Method3Fetch
    \/ Method4 \/ Method4Click \/ Method4Rename \/ ExceptHandler
    \/ FinallyScreenshot \/ FinallySource \/ FinallyQuit

\* main() without the sys.exit(1) of line 708
ExitCode_AlwaysZero(o) == 0

\* the status main() ends the process with, given how the call ended:
\* lines 696-708 (an exception nobody catches ends the process with 1)
ExitCode(o) == IF o = "True" THEN 0 ELSE 1

\* lines 688-708: main() after generate_worksheet_advanced has ended
main ==
    /\ pc = "returned"
    /\ exitStatus' = ExitCode(outcome)
    /\ pc' = "exited"
    /\ UNCHANGED <<session, dir, initial_files, wfdVars, acqVars, mstat,
                   submitted, persisted, renamed, retval, outcome, shot,
                   page_src, captureTried, srcTried, quitCount,
                   quitAfterCapture, opsAfterQuit, drove>>
    /\ UNCHANGED formVars

Next ==
    \/ setup_driver
    \/ Navigate \/ WaitBody \/ Snapshot
    \/ TextInput \/ TextAlt \/ TextType \/ LineHeight
    \/ LineStyle \/ GuideTry
    \/ LetterStyle \/ MenuTry \/ MenuClick \/ MenuCheck
    \/ LetterOption \/ OptionTry
    \/ LetterAlt \/ AltTry \/ AltPick \/ Confirm \/ ConfirmTry
    \/ ConfirmClick
    \/ PaperSize \/ FindCreate \/ CreateTry \/ ClickCreate \/ Method1Start
    \/ WaitPoll \/ WaitGrace \/ WaitSleep
    \/ Method1 \/ Method2 \/ Method2Window \/ Method2Fetch
    \/ Method3 \/ Method3Fetch
    \/ Method4 \/ Method4Click \/ Method4Rename \/ ExceptHandler
    \/ FinallyScreenshot \/ FinallySource \/ FinallyQuit
    \/ main
    \/ DownloadStarts \/ DownloadCompletes \/ FileAppears

Spec == Init /\ [][Next]_vars

\* the steps of the program, as opposed to those of the directory
Run ==
    \/ setup_driver \/ generate_worksheet_advanced
    \/ wait_for_pdf_download \/ main

\* the interpreter keeps running the program: a step that can be taken is
\* taken; nothing is assumed of the directory
FairSpec == Spec /\ WF_vars(Run)

(* ------------------------------ claims --------------------------------- *)
\* the control points at which wait_for_pdf_download has just returned
ReturnPcs == {"m1_ret", "m4_ret", "wfd_done"}
\* the control points after the try body: handler, finally block, main()
EndPcs == {"except", "finally", "finally_src", "quit", "returned", "exited"}
\* the run is over and a session had been created
RunEnded == session # "none" /\ pc \in {"returned", "exited"}

\* C1: when the detecting poll of Method 1 saw exactly one new '.pdf'
\* entry, wait_for_pdf_download returns that entry's name, the run renames
\* that entry to output_file in the download directory and returns success
\* without running Method 2, 3 or 4.
C1_Claim ==
    /\ [](pc = "m1_ret" /\ Cardinality(pdf_files) = 1
            => pdf_files = {pdf_file})
    /\ [][(pc = "m1_ret" /\ Cardinality(pdf_files) = 1 /\ pc' # pc) =>
            /\ pc' = "finally"
            /\ retval' = "True"
            /\ renamed' = pdf_file
            /\ output_file \in dir'
            /\ \A k \in 2..4 : mstat'[k] = "idle"]_vars

\* C2 as stated: wait_for_pdf_download returns no later than `timeout`
\* seconds after the call.
C2_Original == pc \in ReturnPcs => elapsed <= timeout

\* C2, amended: the loop test passes only while less than `timeout` seconds
\* have elapsed, and wait_for_pdf_download returns one sleep after the last
\* test that passed: 'not found' comes less than timeout + 1 s after the
\* call and a detected file less than timeout + 2 s after it (plus what the
\* last sleep overshoots); the grace period is not part of the timeout.
C2_Bounded ==
    pc \in ReturnPcs =>
        IF Truthy(pdf_file)
        THEN elapsed < timeout + GraceSleep + MaxLag
        ELSE elapsed < timeout + PollSleep + MaxLag

\* C2 witness: a file was detected by the last poll and reported after the
\* timeout had passed.
C2_Witness ==
    /\ pc = "wfd_done"
    /\ Truthy(pdf_file)
    /\ timeout > 0
    /\ elapsed > timeout

\* C3: when no new '.pdf' entry existed at any moment of Method 1's polling
\* window (only '.crdownload' entries, or nothing), wait_for_pdf_download
\* returns None, and on None the run goes on to Method 2 without renaming
\* or returning anything.
C3_PartialOnly ==
    /\ [](pc = "m1_ret" /\ ~pdfInWindow => pdf_file = None)
    /\ [][(pc = "m1_ret" /\ pdf_file = None /\ pc' # pc) =>
            /\ pc' = "m2"
            /\ retval' = "none"
            /\ renamed' = None
            /\ dir' = dir]_vars

\* C3 witness: Method 1 timed out with a new '.crdownload' entry in the
\* directory that it had seen and reported as in progress.
C3_Witness ==
    /\ pc = "m1_ret"
    /\ sawPartial /\ ~pdfInWindow
    /\ WPartial \in dir \ initial_files
    /\ elapsed >= Method1Timeout
    /\ pdf_file = None

\* C4: the methods run in the order 1, 2, 3, 4; a method is started only
\* when the one before it has failed; after a success no method is started
\* and the value returned stays True.
C4_Order ==
    /\ [](\A k \in 1..3 : mstat[k + 1] # "idle" => mstat[k] = "failed")
    /\ [](\A k \in 1..4 : mstat[k] = "succeeded" => retval = "True")
    /\ [][(\E k \in 1..4 : mstat[k] = "succeeded")
            => (mstat' = mstat /\ retval' = retval)]_vars

\* C4 witness: Methods 1 and 2 failed, Method 3 succeeded, Method 4 never
\* started.
C4_Witness ==
    /\ pc = "exited"
    /\ mstat = <<"failed", "failed", "succeeded", "idle">>
    /\ outcome = "True"

\* C5 as stated: after the submission the run returns False only when all
\* four methods were attempted and failed.
C5_Claim ==
    (submitted /\ retval = "False") => \A k \in 1..4 : mstat[k] = "failed"

\* C6 as stated: when the active page's address ends in '.pdf' and no new
\* window was opened, Method 2 fetches it and the run does not go on to
\* Method 3.
C6_Claim ==
    (pc = "m3" /\ handles = 1) => ~EndsWith(current_url, PDF)

\* C7: a run whose session was created quits the session exactly once,
\* after the capture attempt, whatever its exit path, and issues no driver
\* operation after the quit.
C7_QuitOnce ==
    /\ RunEnded => quitCount = 1 /\ quitAfterCapture
    /\ quitCount <= 1
    /\ session = "quit" <=> quitCount = 1
    /\ ~opsAfterQuit

\* C7 witness: a run that ended through the exception handler before the
\* submission has quit its session once.
C7_Witness ==
    /\ pc = "exited"
    /\ ~submitted /\ retval = "False" /\ outcome = "False"
    /\ mstat[1] = "idle"
    /\ quitCount = 1 /\ quitAfterCapture

C9_SetupFailure ==
    session = "none" =>
        /\ pc \in {"main", "exited"}
        /\ pc = "exited" => exitStatus = 1
        /\ ~drove /\ ~submitted
        /\ \A k \in 1..4 : mstat[k] = "idle"
        /\ ~captureTried /\ ~srcTried /\ shot = "none" /\ page_src = "absent"
        /\ quitCount = 0
        /\ retval = "none" /\ outcome = "none"

\* C9 witness: the process has exited with 1 without a session.
C9_Witness == pc = "exited" /\ session = "none" /\ exitStatus = 1

\* C10: the exit status is 0 exactly when generate_worksheet_advanced
\* returned True, and 1 in every other case in which the process ended.
C10_ExitStatus ==
    /\ pc = "exited" => exitStatus \in {0, 1}
    /\ pc = "exited" => (exitStatus = 0 <=> outcome = "True")
    /\ pc # "exited" => exitStatus = -1

\* C10 witness: the process ended with 0 after a run that returned True.
C10_Witness == pc = "exited" /\ exitStatus = 0 /\ outcome = "True"

\* C11 as stated: a letter-style option is looked up only after a menu
\* opener was clicked and option controls that were not on the page before
\* that click appeared.
C11_Original == optionTried => (letters_menu_opened /\ optsNew)

\* C11 amended: the option lookup of Step 2 (lines 289-313) runs only after
\* a displayed opener was clicked and the lookup of line 256 then returned
\* something, be it new controls or controls that were on the page before;
\* an option looked up with no opened menu was looked up by the alternative
\* approaches of lines 315-440.
C11_StepTwoGated ==
    /\ (pc = "option_try") => letters_menu_opened
    /\ letters_menu_opened => (optsBefore \/ optsNew)
    /\ (pc = "letter_option" /\ letters_menu_opened) =>
          /\ used \in 1..MenuStrategies
          /\ acted.vis /\ lastClick = "native"
    /\ (optionTried /\ ~letters_menu_opened) =>
          pc \in {"alt_try", "alt_pick", "confirm"}

\* Step 2 has looked an option up behind an opener whose click brought no
\* new control
C11_Witness ==
    /\ pc = "option_try" /\ optionTried
    /\ letters_menu_opened /\ optsBefore /\ ~optsNew

\* control points of the lookups and activations of lines 104-509, the
\* typing of lines 127-131 excepted
ResolvePcs ==
    {"text_input", "text_alt", "line_height", "line_style", "guide_try",
     "letter_style", "menu_try", "menu_click", "menu_check",
     "letter_option", "option_try", "letter_alt", "alt_try", "alt_pick",
     "confirm", "confirm_try", "confirm_click", "paper_size",
     "find_create"}

\* C12: for the text, line-style, letter-style and confirmation intents a
\* resolution that matches no element ends as "not found" without raising:
\* nothing is activated, no lookup step leaves for the handler of line 640
\* or for the end of the run, and the run goes on, block after block, to
\* the lookup of the Create Worksheet button.
C12_MissGoesOn ==
    [][/\ (pc \in ResolvePcs) =>
             (pc' \in ResolvePcs \cup {"text_type", "create_try"})
       /\ (pc = "text_type" /\ ~cand.there) =>
             (pc' \in {pc, "line_height"} /\ acted' = acted)
       /\ (pc \in {"guide_try", "menu_try", "confirm_try"} /\ pc' # pc
             /\ firstMatch' = 0) =>
             (used' = 0 /\ acted' = acted)]_vars

\* the confirmation list ended with no button at all and the run is past
\* the letter-style block
C12_Witness ==
    /\ pc = "paper_size" /\ si = ConfirmStrategies
    /\ firstMatch = 0 /\ used = 0 /\ acted = NoEl

\* C13: an error raised while an intent that precedes the submission is
\* resolved or actuated (text, line height, guide lines, letter style,
\* confirmation, paper size) is absorbed at that step: no such step hands
\* control to the handler of line 640, which returns False before the
\* Create Worksheet button is looked up.
C13_Claim ==
    [][(pc \in ResolvePcs \cup {"text_type"}) => (pc' # "except")]_vars

\* control points at which a list has just ended: the text-input list, the
\* guide list, the menu-opener list, the confirmation list, the list of
\* the Create Worksheet button
ListEndPcs ==
    {"text_type", "letter_style", "letter_option", "paper_size",
     "click_create"}

\* C14 as stated: in every strategy list the element returned or activated
\* comes from the lowest-index strategy that has a match on the page.
C14_Original ==
    (pc \in ListEndPcs /\ used # 0) => used = firstMatch

\* what a lookup-only list takes for a match of its strategy i: the
\* WebDriverWait of line 107 and those of line 535 return an element that
\* is displayed and enabled, the find_element of line 122 any element
Matches(list, i, e) ==
    IF list = "create" \/ i = 1 THEN Clickable(e) ELSE e.there

\* the resolution of a lookup-only list of n strategies on a page, given
\* as the element each strategy's lookup yields there: the loops of lines
\* 105-125 and 533-541, from strategy i on
RECURSIVE ResolveFrom(_, _, _, _)
ResolveFrom(list, page, n, i) ==
    IF i > n THEN <<0, NoEl>>
    ELSE IF Matches(list, i, page[i]) THEN <<i, page[i]>>
    ELSE ResolveFrom(list, page, n, i + 1)

Resolve(list, page, n) == ResolveFrom(list, page, n, 1)

\* the pages that answer the lookups of a lookup-only list as the run saw
\* them answered: the strategies it went through matched at firstMatch
\* only, with the element the run holds; what the strategies it never
\* reached would find is open
PagesSeen(list, n) ==
    {page \in [1..n -> Lookups] :
        /\ \A i \in 1..si : Matches(list, i, page[i]) <=> (i = firstMatch)
        /\ (firstMatch # 0) => page[firstMatch] = cand}

\* C14 amended: a list stops at the first strategy that succeeds, that is
\* whose lookup matches and whose activation goes through (for the menu
\* opener: and the lookup of line 256 then returns something); no strategy
\* after that one is attempted, and when none succeeds all were
\* attempted.  For the text input and the Create Worksheet button, whose
\* lists only look up, the element returned comes from the lowest-index
\* strategy with a match; in the guide, menu-opener and confirmation lists
\* the element that counts may come from a later strategy than the lowest
\* one with a match.  Resolution is deterministic where it only looks up:
\* on every page that answers the lookups of the text-input or of the
\* Create Worksheet list as the run saw them answered, a second resolution
\* selects the same strategy and the same element.
C14_FirstSuccess ==
    /\ (pc \in ListEndPcs /\ used # 0) =>
          (si = used /\ firstMatch \in 1..used)
    /\ (pc \in {"text_type", "click_create"} /\ used # 0) =>
          /\ used = firstMatch /\ cand.there
          /\ (pc = "click_create" \/ used = 1) => Clickable(cand)
    /\ (pc = "text_type" /\ used = 0) => si = TextStrategies
    /\ (pc = "letter_style" /\ used = 0) => si = GuideStrategies
    /\ (pc = "letter_option" /\ used = 0) => si = MenuStrategies
    /\ (pc = "paper_size" /\ used = 0) => si = ConfirmStrategies
    /\ (pc = "text_type") =>
          \A page \in PagesSeen("text", TextStrategies) :
             Resolve("text", page, TextStrategies) = <<used, cand>>
    /\ (pc = "click_create") =>
          \A page \in PagesSeen("create", CreateStrategies) :
             Resolve("create", page, CreateStrategies) = <<used, cand>>

\* the guide list ended on the image of its second strategy although the
\* radio of the first one was on the page: its click had raised
C14_Witness ==
    /\ pc = "letter_style" /\ used = 2 /\ firstMatch = 1 /\ si = 2

\* C15: the step that executes `return True` is the step in which the
\* rename onto output_file or the write of output_file completed: the file
\* was not yet produced before it, and after it the directory holds
\* output_file; success is not returned with no file persisted.
C15_PersistThenSuccess ==
    [][(retval # "True" /\ retval' = "True") =>
          /\ persisted \notin {"rename", "write"}
          /\ persisted' \in {"rename", "write"}
          /\ output_file \in dir'
          /\ (persisted' = "rename") => renamed' # None]_vars

\* the run returned True after Method 2 wrote the fetched document
C15_Witness ==
    /\ retval = "True" /\ mstat[2] = "succeeded"
    /\ persisted = "write" /\ output_file \in dir

\* C16: a run that clicked the Create Worksheet button and returns False
\* has not created, overwritten or renamed any file under the name
\* output_file.
C16_Claim ==
    (submitted /\ retval = "False") => persisted = "no"

\* C17: every run terminates: all its waits are bounded, so it reaches the
\* release of the session, returns, and the process exits.
C17_Claim == <>(pc = "exited")

\* C18: a name wait_for_pdf_download returns ends in '.pdf' and not in
\* '.crdownload', is not in initial_files, and was in the listing of the
\* poll that ended the loop, at a moment of the call when the directory
\* held a completed new file.
C18_NewCompleteOnly ==
    (pc \in ReturnPcs /\ Truthy(pdf_file)) =>
        /\ EndsWith(pdf_file, PDF)
        /\ ~EndsWith(pdf_file, CRDOWNLOAD)
        /\ pdf_file \notin initial_files
        /\ pdf_file \in pdf_files
        /\ pdfInWindow

\* the call returned the new file although the directory also held a PDF
\* of the baseline and a download in progress
C18_Witness ==
    /\ pc = "wfd_done" /\ pdf_file = VPdf
    /\ WPdf \in initial_files /\ WPartial \in dir

\* C19: every element the run clicks, types into or selects is displayed
\* and enabled: a strategy whose candidates are hidden or disabled does not
\* have them actuated.
C19_Claim == acted.there => (acted.vis /\ acted.en)

\* C20: when the native click on a menu opener or on a letter-style option
\* raises, the candidate is not given up before a script click on it was
\* attempted, as is done for the confirmation button and the Create
\* Worksheet button.
C20_Claim ==
    (pc \in {"menu_try", "letter_option", "option_try", "letter_alt"}) =>
        lastClick # "native_failed"

\* the words of the synonym table for a style: the row of style_mappings
Synonyms(style) ==
    {style_mappings(style)[i] : i \in 1..Len(style_mappings(style))}

\* the style words an option lookup of the run can match on
StyleWords ==
    UNION {Synonyms(style) : style \in LetterStyles}

\* C21: a letter-style option that the run activates after a lookup by a
\* style word was matched on the requested style or on one of its synonyms
\* of the table (dashed ~ outline, solid ~ filled); in particular a request
\* for 'solid' never activates an option matched on 'outline'.
C21_Claim ==
    (letters_menu_found /\ matchedOn \in StyleWords)
        => matchedOn \in Synonyms(letter_style)

\* C22 as stated: when the page holds a radio input for the requested style
\* or a synonym, the option that Step 2 activates is that radio, never a
\* text element.
C22_Original ==
    (pc = "letter_alt" /\ used # 0 /\ radioOnPage) => ei = 1

\* C22: for each value of the list, in the order of the list, the radio
\* lookup comes before the text lookup of the same value: a radio that is
\* clicked ends the loop, and a text element for a value is looked up and
\* activated only when the radio lookup for that value found nothing or its
\* click raised. A radio for a later value of the list does not stand in
\* the way of a text element for an earlier one.
C22_RadioFirstPerValue ==
    /\ (pc = "option_try" /\ ei = 2) => radioRes \in {"none", "raised"}
    /\ (pc = "letter_alt" /\ used # 0 /\ ei = 1) => radioRes = "clicked"
    /\ (pc = "letter_alt" /\ used # 0 /\ ei = 2)
          => radioRes \in {"none", "raised"}

\* a text element for the first value was activated on a page that holds a
\* radio for a later value
C22_Witness ==
    /\ pc = "letter_alt" /\ used = 1 /\ ei = 2
    /\ radioRes = "none" /\ radioOnPage
    /\ letters_menu_found

\* C23: no element of a list is clicked after an earlier click on an
\* element of the same list went through: every element the run clicks was
\* located by a lookup made after the most recent click; stated on the
\* first of the loops the claim names, the menu-opener loop.
C23_Claim ==
    listUse # "reused"

\* the positions whose step starts with an element lookup of the
\* letter-style block (lines 242, 256, 292, 322, 332, 470)
LetterLookupPcs ==
    {"menu_try", "menu_check", "option_try", "alt_try", "alt_pick",
     "confirm_try"}

\* C24: a click on a form control that went through is followed by a sleep
\* before the next element lookup of the run.
C24_Claim ==
    (pc \in LetterLookupPcs) => ~unsettled

\* the run is past the try body and all five button_selectors had been
\* tried without a clickable element
NoCreateButton ==
    pc \in EndPcs /\ si = CreateStrategies /\ used = 0

\* C25: when none of the five button selectors yields a clickable element
\* the try body ends on return False without submitting and without
\* starting any detection method (no poll of the download directory, no
\* look at the windows, no fetch, no rename, no write); the diagnostic
\* capture and driver.quit() of the finally block still run, and the
\* process ends with status 1 (by the False returned, or by what
\* driver.quit() raised).
C25_NoButtonNoDetection ==
    NoCreateButton =>
        /\ pc # "except"
        /\ retval = "False" /\ ~submitted
        /\ \A k \in 1..4 : mstat[k] = "idle"
        /\ caller = "none" /\ timeout = 0 /\ elapsed = 0
        /\ pdf_file = None /\ pdf_files = {}
        /\ current_url = None /\ handles = 0 /\ context = 1
        /\ new_url = None /\ href = None /\ buttons = 0
        /\ persisted = "no" /\ renamed = None
        /\ (pc \in {"quit", "returned", "exited"} => captureTried)
        /\ (pc \in {"returned", "exited"}
               => quitCount = 1 /\ outcome \in {"False", "raised"})
        /\ (pc = "exited" => exitStatus = 1)

\* a run with no Create Worksheet button is over: capture and quit ran
C25_Witness ==
    /\ NoCreateButton /\ pc = "exited"
    /\ captureTried /\ quitCount = 1 /\ session = "quit"
    /\ exitStatus = 1

\* C26: initial_files is taken once, at line 101, before anything of the
\* form is looked up or touched, and is never assigned again; what Method 1
\* and every wait of Method 4 return is a '.pdf' entry outside that one
\* snapshot, so an entry that appeared after it, after the timeout of
\* Method 1 too, is returned by a wait of Method 4; Method 4 waits only
\* after a click on one of the Download/Save buttons it found, never when
\* there is none.
C26_SingleBaseline ==
    /\ [][/\ (initial_files' # initial_files)
                => (pc = "snapshot" /\ pc' = "text_input")
          /\ (pc = "snapshot" /\ pc' # pc)
                => /\ initial_files' = dir
                   /\ ListIdle /\ LettersIdle /\ acted = NoEl
                   /\ ~submitted]_vars
    /\ []((pc \in {"main", "get", "wait_body", "snapshot"})
              => initial_files = {})
    /\ []((pc \in {"m1_ret", "m4_ret"} /\ Truthy(pdf_file))
              => (IsPdf(pdf_file) /\ pdf_file \notin initial_files))
    /\ []((caller = "m4")
              => (buttons >= 1 /\ bi \in 1..buttons
                  /\ mstat[4] = "running"))

\* Method 1 timed out, and a wait of Method 4 returns a '.pdf' entry that
\* is not in the snapshot, which holds an older '.pdf' entry
C26_Witness ==
    /\ pc = "m4_ret" /\ Truthy(pdf_file)
    /\ mstat[1] = "failed"
    /\ WPdf \in initial_files /\ pdf_file \notin initial_files

\* C27: once Method 2 has switched (line 579) the driver is never switched
\* again, and what it was switched to is the newest window and not the
\* window in which Submit was clicked: the link scan of Method 3, the
\* button scan of Method 4 and the capture of the finally block all run
\* there.
C27_Claim ==
    /\ [][(pc # "m2") => (context' = context)]_vars
    /\ []((pc \in {"m2_window", "m2_fetch", "m3"} /\ handles > 1)
            => context # 1)

================================================================================
